---- MODULE Spec2Model ----
(***************************************************************************)
(* Model of bezier.c: pascal_row, generate_control_points and bezier.      *)
(*                                                                         *)
(* Numbers.  C int is 32 bits wide; its products are computed on 16-bit    *)
(* limbs so that the wrapped value is the one the machine produces.        *)
(* Doubles are modelled by exact rationals with a fixed denominator:       *)
(*   - a curve sample is a pair of numerators over scale = 100^n           *)
(*     (t = t_index/100, so every Bernstein weight is a multiple of        *)
(*     1/100^n);                                                           *)
(*   - a synthesized control point is a pair of numerators over GenDen;    *)
(*     sqrt is rounded down to a multiple of 1/SqrtScale.                  *)
(***************************************************************************)
EXTENDS Integers, Sequences, FiniteSets, TLC

VARIABLES
    call,       \* the routine that ran last
    args,       \* its arguments
    parses,     \* whether PyArg_ParseTuple accepts the argument tuple
    status,     \* how it returned: "ok", "NULL" (Python error set), "crash"
    points,     \* bezier: the 101 samples, numerators over scale
    scale,      \* bezier: the denominator of the samples, 100^n
    data,       \* generate_control_points: 4 points, numerators over GenDen
    draws,      \* generate_control_points: the four rand() values, in order
    oob,        \* bezier: indices pascal_row wrote outside the malloc'd row
    pc,         \* pascal_row: position in the routine
    n,          \* pascal_row: its parameter n
    k,          \* pascal_row: the loop counter
    row,        \* pascal_row: the entries of row written so far
    inexact     \* pascal_row: the k at which the division left a remainder

vars == <<call, args, parses, status, points, scale, data, draws, oob,
          pc, n, k, row, inexact>>

-----------------------------------------------------------------------------
(* Bounds of the model *)

MaxRowN == 31           \* largest n handed to pascal_row on its own
MaxPoints == 4          \* most control points handed to bezier
RandMax == 2            \* stand-in for RAND_MAX: rand() returns 0..RandMax
MaxDevNum == 2          \* deviation ranges over -1/DevDen .. MaxDevNum/DevDen

DevDen == 2
SqrtScale == 10

\* the control points tried; the first four are the cubic of the README
PointSet == {<<0, 0>>, <<0, 10>>, <<10, 10>>, <<10, 0>>, <<-3, 7>>}

-----------------------------------------------------------------------------
(* 32-bit int arithmetic *)

Limb == 65536
HalfLimb == 32768

\* the signed 16-bit value of the upper limb
Wrap16(h) == ((h + HalfLimb) % Limb) - HalfLimb

\* The outcomes of the signed overflow in row[k-1] * (n-k): the product
\* wraps to 32 bits before the division, or the expression is evaluated in
\* a wider register and only the stored quotient is narrowed.
OverflowOutcomes == {"wrap", "wide"}

\* row[k - 1] * (n - k) / k of an int a, with b > 0 and d > 0
\*   q: the int stored, rem: what the division discarded,
\*   overflow: the exact product does not fit an int
MulDiv(a, b, d, mode) ==
    LET al  == a % Limb
        p   == al * b
        hi  == (a \div Limb) * b + (p \div Limb)
        lo  == p % Limb
        hiw == IF mode = "wrap" THEN Wrap16(hi) ELSE hi
        low == (hiw % d) * Limb + lo
        rem == low % d
        \* C truncates toward zero
        adj == IF hiw < 0 /\ rem # 0 THEN 1 ELSE 0
        ql  == (low \div d) + adj
        qh  == (hiw \div d) + (ql \div Limb)
    IN  [q        |-> Wrap16(qh) * Limb + (ql % Limb),
         rem      |-> IF adj = 1 THEN rem - d ELSE rem,
         overflow |-> hi \notin (-HalfLimb)..(HalfLimb - 1)]

-----------------------------------------------------------------------------
(* pascal_row *)

\* row[0] = row[n] = 1
PascalEnds(nn) == [i \in {0, nn} |-> 1]

\* one iteration of the loop: row[k] = row[k - 1] * (n - k) / k
PascalIter(r, kk, nn, mode) ==
    [i \in DOMAIN r \cup {kk} |->
        IF i = kk THEN MulDiv(r[kk - 1], nn - kk, kk, mode).q ELSE r[i]]

RECURSIVE PascalLoop(_, _, _, _)
PascalLoop(r, kk, nn, mode) ==
    IF kk < nn THEN PascalLoop(PascalIter(r, kk, nn, mode), kk + 1, nn, mode)
    ELSE r

\* the entries of row after pascal_row(n, row), by index
pascal_row(nn, mode) == PascalLoop(PascalEnds(nn), 1, nn, mode)

\* pascal_row step by step, on an n of its own
PascalInit ==
    /\ call = "pascal_row" /\ args = <<>> /\ parses = TRUE /\ status = "none"
    /\ points = <<>> /\ scale = 1 /\ data = <<>> /\ draws = <<>> /\ oob = {}
    /\ pc = "entry"
    /\ n \in 0..MaxRowN
    /\ k = 0
    /\ row = <<>>
    /\ inexact = {}

PascalEnter ==
    /\ pc = "entry"
    /\ row' = PascalEnds(n)
    /\ k' = 1
    /\ pc' = "loop"
    /\ UNCHANGED <<call, args, parses, status, points, scale, data, draws, oob, n, inexact>>

PascalStep ==
    /\ pc = "loop" /\ k < n
    /\ \E mode \in OverflowOutcomes :
         LET m == MulDiv(row[k - 1], n - k, k, mode)
         IN  /\ row' = PascalIter(row, k, n, mode)
             /\ inexact' = IF m.rem # 0 THEN inexact \cup {k} ELSE inexact
    /\ k' = k + 1
    /\ UNCHANGED <<call, args, parses, status, points, scale, data, draws, oob, pc, n>>

PascalExit ==
    /\ pc = "loop" /\ ~(k < n)
    /\ pc' = "done"
    /\ UNCHANGED <<call, args, parses, status, points, scale, data, draws, oob, n, k, row, inexact>>

PascalNext == PascalEnter \/ PascalStep \/ PascalExit

SpecPascal == PascalInit /\ [][PascalNext]_vars

-----------------------------------------------------------------------------
(* bezier *)

LastIndex == 100        \* t_index runs 0..100 and t = t_index / 100.0

\* a pow that takes 0^0 to be 0
RECURSIVE PowZeroBase(_, _)
PowZeroBase(b, e) ==
    IF b = 0 THEN 0 ELSE IF e = 0 THEN 1 ELSE b * PowZeroBase(b, e - 1)

\* pow(b, e) on numerators, e >= 0; pow(x, 0) is 1 for every x, also 0
RECURSIVE Pow(_, _)
Pow(b, e) == IF e = 0 THEN 1 ELSE b * Pow(b, e - 1)

\* control_points[idx] of the flat array behind the (num, 2) input
CP(a, idx) == a[(idx \div 2) + 1][(idx % 2) + 1]

\* a weight with the exponents of t and 1 - t exchanged
CoeffSwapped(r, num, t_index, i) ==
    r[i] * Pow(LastIndex - t_index, i) * Pow(t_index, num - 1 - i)

\* coeff = row[i] * pow(t, i) * pow(1 - t, num_control_points - 1 - i),
\* as a numerator over 100^(num_control_points - 1)
Coeff(r, num, t_index, i) ==
    r[i] * Pow(t_index, i) * Pow(LastIndex - t_index, num - 1 - i)

\* the inner loop from index i on: the sum of coeff * control_points[2*i + c]
RECURSIVE Accumulate(_, _, _, _, _, _)
Accumulate(a, r, num, t_index, i, c) ==
    IF i < num
    THEN Coeff(r, num, t_index, i) * CP(a, 2 * i + c)
         + Accumulate(a, r, num, t_index, i + 1, c)
    ELSE 0

\* the outer loop: points[2 * t_index], points[2 * t_index + 1]
CurvePoints(a, r) ==
    [t_index \in 0..LastIndex |->
        <<Accumulate(a, r, Len(a), t_index, 0, 0),
          Accumulate(a, r, Len(a), t_index, 0, 1)>>]

\* the common denominator of the samples
Scale(num) == IF num = 0 THEN 1 ELSE Pow(LastIndex, num - 1)

\* the entries of row outside the num_control_points ints malloc'd for it
OutOfBounds(r, num) == DOMAIN r \ (0..(num - 1))

BezierArgs == UNION {[1..m -> PointSet] : m \in 0..MaxPoints}

\* PyArg_ParseTuple fails: NULL is returned with the error set
BezierParseFail ==
    /\ call = "bezier" /\ status = "called" /\ ~parses
    /\ status' = "NULL"
    /\ UNCHANGED <<call, args, parses, points, scale, data, draws, oob,
                   pc, n, k, row, inexact>>

\* the body of bezier on a parsed array of control points; a write outside
\* row either goes unnoticed or ends the process
BezierRun ==
    /\ call = "bezier" /\ status = "called" /\ parses
    /\ \E mode \in OverflowOutcomes :
         LET num == Len(args)
             r   == pascal_row(num - 1, mode)
             bad == OutOfBounds(r, num)
         IN  /\ row' = r
             /\ oob' = bad
             /\ \/ /\ status' = "ok"
                   /\ points' = CurvePoints(args, r)
                   /\ scale' = Scale(num)
                \/ /\ bad # {}
                   /\ status' = "crash"
                   /\ UNCHANGED <<points, scale>>
    /\ UNCHANGED <<call, args, parses, data, draws, pc, n, k, inexact>>

bezier == BezierParseFail \/ BezierRun

-----------------------------------------------------------------------------
(* generate_control_points *)

\* largest r with r * r <= x, x >= 0
RECURSIVE IsqrtBetween(_, _, _)
IsqrtBetween(x, lo, hi) ==
    IF lo = hi THEN lo
    ELSE LET mid == (lo + hi + 1) \div 2
         IN  IF mid * mid <= x THEN IsqrtBetween(x, mid, hi)
             ELSE IsqrtBetween(x, lo, mid - 1)

Isqrt(x) == IsqrtBetween(x, 0, x)

\* distance = sqrt(pow(fin_x - init_x, 2) + pow(fin_y - init_y, 2)),
\* numerator over SqrtScale
Distance(init, fin) ==
    Isqrt((Pow(fin[1] - init[1], 2) + Pow(fin[2] - init[2], 2))
          * SqrtScale * SqrtScale)

\* the denominator of the synthesized coordinates
GenDen == RandMax * DevDen * SqrtScale

\* max_deviation = deviation * distance, numerator over GenDen
MaxDeviation(dn, init, fin) == dn * Distance(init, fin) * RandMax

\* an offset that is not centred on the anchor: the draw scaled to 0..2m
OffsetUncentred(rnd, md) == rnd * 2 * (md \div RandMax)

\* an offset that divides the draw by RAND_MAX + 1
OffsetHalfOpen(rnd, md) == ((rnd * 2 * md) \div (RandMax + 1)) - md

\* ((double)rand() / RAND_MAX) * 2 * max_deviation - max_deviation,
\* numerator over GenDen; md is the numerator of max_deviation
Offset(rnd, md) == (rnd * 2 * (md \div RandMax)) - md

\* a layout that jitters all four points
ControlDataAllJittered(init, fin, md, rs) ==
    [idx \in 0..7 |->
        CASE idx = 0 -> init[1] * GenDen + Offset(rs[1], md)
          [] idx = 1 -> init[2] * GenDen + Offset(rs[2], md)
          [] idx = 2 -> init[1] * GenDen + Offset(rs[1], md)
          [] idx = 3 -> init[2] * GenDen + Offset(rs[2], md)
          [] idx = 4 -> fin[1] * GenDen + Offset(rs[3], md)
          [] idx = 5 -> fin[2] * GenDen + Offset(rs[4], md)
          [] idx = 6 -> fin[1] * GenDen + Offset(rs[3], md)
          [] idx = 7 -> fin[2] * GenDen + Offset(rs[4], md)]

\* data[0..7] as assigned at the end of generate_control_points
ControlData(init, fin, md, rs) ==
    [idx \in 0..7 |->
        CASE idx = 0 -> init[1] * GenDen
          [] idx = 1 -> init[2] * GenDen
          [] idx = 2 -> init[1] * GenDen + Offset(rs[1], md)
          [] idx = 3 -> init[2] * GenDen + Offset(rs[2], md)
          [] idx = 4 -> fin[1] * GenDen + Offset(rs[3], md)
          [] idx = 5 -> fin[2] * GenDen + Offset(rs[4], md)
          [] idx = 6 -> fin[1] * GenDen
          [] idx = 7 -> fin[2] * GenDen]

GenerateArgs ==
    [init : PointSet, fin : PointSet, deviation : (-1)..MaxDevNum]

GenerateParseFail ==
    /\ call = "generate_control_points" /\ status = "called"
    /\ ~parses
    /\ status' = "NULL"
    /\ UNCHANGED <<call, args, parses, points, scale, data, draws, oob,
                   pc, n, k, row, inexact>>

\* the body of generate_control_points; rs are the values the four calls
\* of rand() return, in the order of the calls
GenerateRun ==
    /\ call = "generate_control_points" /\ status = "called"
    /\ parses
    /\ \E rs \in [1..4 -> 0..RandMax] :
         /\ draws' = rs
         /\ data' = ControlData(args.init, args.fin,
                        MaxDeviation(args.deviation, args.init, args.fin), rs)
    /\ status' = "ok"
    /\ UNCHANGED <<call, args, parses, points, scale, oob, pc, n, k, row, inexact>>

generate_control_points == GenerateParseFail \/ GenerateRun

-----------------------------------------------------------------------------
(* the module: one call of one of its two methods, on any arguments *)

Init ==
    /\ call \in {"bezier", "generate_control_points"}
    /\ parses \in BOOLEAN
    /\ args \in IF ~parses THEN {<<>>}
                ELSE IF call = "bezier" THEN BezierArgs ELSE GenerateArgs
    /\ status = "called"
    /\ points = <<>> /\ scale = 1 /\ data = <<>> /\ draws = <<>> /\ oob = {}
    /\ pc = "idle" /\ n = 0 /\ k = 0 /\ row = <<>> /\ inexact = {}

Next == bezier \/ generate_control_points

Spec == Init /\ [][Next]_vars

-----------------------------------------------------------------------------
(* Reference definitions the properties are stated against *)

\* row m of Pascal's Triangle, by the additive rule
RECURSIVE TriangleRow(_)
TriangleRow(m) ==
    IF m = 0 THEN [i \in {0} |-> 1]
    ELSE LET prev == TriangleRow(m - 1)
         IN  [i \in 0..m |-> IF i = 0 \/ i = m THEN 1
                             ELSE prev[i - 1] + prev[i]]

\* sum over i = from..deg of C(deg,i) * t^i * (1-t)^(deg-i) * P_i[c],
\* numerator over 100^deg, c = 1 for x and 2 for y
RECURSIVE Bernstein(_, _, _, _, _)
Bernstein(a, deg, j, from, c) ==
    IF from > deg THEN 0
    ELSE TriangleRow(deg)[from] * Pow(j, from) * Pow(LastIndex - j, deg - from)
            * a[from + 1][c]
         + Bernstein(a, deg, j, from + 1, c)

BezierReturned == call = "bezier" /\ parses /\ status # "called"
GenerateReturned ==
    call = "generate_control_points" /\ parses /\ status # "called"

\* numerator of max_deviation of the call in the state
StateMaxDev == MaxDeviation(args.deviation, args.init, args.fin)

\* the four jittered entries of data: index, anchor coordinate, draw
Jittered ==
    {<<2, args.init[1], 1>>, <<3, args.init[2], 2>>,
     <<4, args.fin[1], 3>>, <<5, args.fin[2], 4>>}

\* the offset added to the anchor in a jittered entry
OffsetOf(e) == data[e[1]] - e[2] * GenDen

-----------------------------------------------------------------------------
(* Properties *)

\* C1: for at least 2 control points bezier returns exactly 101 samples,
\* sample 0 equals control point 0 and sample 100 equals the last control
\* point, on both coordinates.
C1_Endpoints ==
    (BezierReturned /\ Len(args) >= 2) =>
        /\ status = "ok"
        /\ DOMAIN points = 0..100
        /\ Cardinality(DOMAIN points) = 101
        /\ points[0] = <<args[1][1] * scale, args[1][2] * scale>>
        /\ points[100] = <<args[Len(args)][1] * scale,
                           args[Len(args)][2] * scale>>

C1_Witness ==
    /\ BezierReturned /\ status = "ok" /\ Len(args) = 4
    /\ args[1] = <<-3, 7>> /\ args[4] = <<10, 0>>
    /\ points[0] = <<-3 * scale, 7 * scale>>
    /\ points[100] = <<10 * scale, 0>>

\* C2: for at least 2 control points every sample j equals the Bernstein
\* blend sum_i C(n,i) t^i (1-t)^(n-i) P_i with t = j/100, on both
\* coordinates.
C2_BernsteinBlend ==
    (BezierReturned /\ status = "ok" /\ Len(args) >= 2) =>
        \A j \in 0..100 :
            points[j] = <<Bernstein(args, Len(args) - 1, j, 0, 1),
                          Bernstein(args, Len(args) - 1, j, 0, 2)>>

\* C3: pascal_row(n) fills n+1 entries that are row n of Pascal's Triangle.
C3_RowIsPascal ==
    pc = "done" =>
        /\ DOMAIN row = 0..n
        /\ \A i \in 0..n : row[i] = TriangleRow(n)[i]

\* C4: the row filled by pascal_row(n) has length n+1, first and last
\* entries 1, and is palindromic.
C4_Palindrome ==
    pc = "done" =>
        /\ DOMAIN row = 0..n
        /\ row[0] = 1 /\ row[n] = 1
        /\ \A i \in 0..n : row[i] = row[n - i]

\* C5: with fewer than 2 control points bezier fails with an error, returns
\* no curve and never writes outside the coefficient buffer.
C5_RejectsShortInput ==
    (BezierReturned /\ Len(args) < 2) =>
        /\ status = "NULL"
        /\ points = <<>>
        /\ oob = {}

\* C6: generate_control_points returns exactly 4 points, [start, control1,
\* control2, end]: the anchors unchanged, control1 an offset of start and
\* control2 an offset of end.
C6_Layout ==
    GenerateReturned =>
        /\ status = "ok"
        /\ DOMAIN data = 0..7
        /\ data[0] = args.init[1] * GenDen /\ data[1] = args.init[2] * GenDen
        /\ data[6] = args.fin[1] * GenDen /\ data[7] = args.fin[2] * GenDen
        /\ \A e \in Jittered : OffsetOf(e) = Offset(draws[e[3]], StateMaxDev)

C6_Witness ==
    /\ GenerateReturned /\ status = "ok"
    /\ args.init = <<-3, 7>> /\ args.fin = <<10, 0>> /\ args.deviation = 2
    /\ draws = [i \in 1..4 |-> IF i \in {1, 4} THEN RandMax ELSE 0]
    /\ data[0] = -3 * GenDen /\ data[7] = 0
    /\ data[2] > data[0] /\ data[5] > data[7]
    /\ data[3] < data[1] /\ data[4] < data[6]

\* C7: for deviation d >= 0 every coordinate of control1 lies within
\* start -/+ d*distance and every coordinate of control2 within
\* end -/+ d*distance; with d = 0 the result is [start, start, end, end].
C7_WithinDeviation ==
    (GenerateReturned /\ args.deviation >= 0) =>
        /\ \A e \in Jittered :
              /\ e[2] * GenDen - StateMaxDev <= data[e[1]]
              /\ data[e[1]] <= e[2] * GenDen + StateMaxDev
        /\ args.deviation = 0 =>
              /\ <<data[2], data[3]>> = <<data[0], data[1]>>
              /\ <<data[4], data[5]>> = <<data[6], data[7]>>

C7_Witness ==
    /\ GenerateReturned /\ args.deviation > 0 /\ StateMaxDev > 0
    /\ data[2] = args.init[1] * GenDen - StateMaxDev
    /\ data[5] = args.fin[2] * GenDen + StateMaxDev
    /\ data[3] # data[1]

\* C8 as stated: for m = deviation*distance > 0 each of the four offsets
\* lies in the half-open interval [-m, m).
C8_HalfOpen ==
    (GenerateReturned /\ StateMaxDev > 0) =>
        \A e \in Jittered :
            -StateMaxDev <= OffsetOf(e) /\ OffsetOf(e) < StateMaxDev

\* C8 amended: for m > 0 each of the four offsets lies in the closed
\* interval [-m, m], and equals +m exactly when its rand() returned RAND_MAX.
C8_Closed ==
    (GenerateReturned /\ StateMaxDev > 0) =>
        \A e \in Jittered :
            /\ -StateMaxDev <= OffsetOf(e) /\ OffsetOf(e) <= StateMaxDev
            /\ OffsetOf(e) = StateMaxDev <=> draws[e[3]] = RandMax

C8_Witness ==
    /\ GenerateReturned /\ StateMaxDev > 0
    /\ draws[1] = RandMax /\ draws[2] < RandMax
    /\ OffsetOf(<<2, args.init[1], 1>>) = StateMaxDev
    /\ OffsetOf(<<3, args.init[2], 2>>) < StateMaxDev

\* C9: with 2 control points every sample j equals
\* start*(1-t) + end*t with t = j/100, on both coordinates.
C9_Linear ==
    (BezierReturned /\ Len(args) = 2) =>
        /\ status = "ok"
        /\ scale = 100
        /\ \A j \in 0..100 : \A c \in 1..2 :
              points[j][c] = args[1][c] * (100 - j) + args[2][c] * j

C9_Witness ==
    /\ BezierReturned /\ status = "ok"
    /\ args = <<<<0, 0>>, <<10, 0>>>>
    /\ scale = 100
    /\ points[50] = <<500, 0>>
    /\ points[25] = <<250, 0>>

\* C10: at every interior k the division row[k-1] * (n-k) / k of pascal_row
\* leaves remainder 0.
C10_ExactDivision == inexact = {}

====
